---- MODULE Spec2Model ----
(***************************************************************************)
(* Hybrid time-lock encryption (password + drand beacon round).            *)
(*                                                                         *)
(* State machine of src/src/encryption/hybrid.ts (hybridEncrypt,           *)
(* hybridDecrypt) and src/src/encryption/timelock.ts (getChainClient,      *)
(* encryptWithTimelock, decryptWithTimelock), together with the two        *)
(* libraries they call (openpgp, tlock-js) and the beacon they talk to.    *)
(*                                                                         *)
(* Instants are milliseconds, written as offsets from the chain's genesis  *)
(* (genesis_time * 1000): the instant 0 is genesis itself, so the          *)
(* difference "time - genesis_time * 1000" that roundAt takes is the       *)
(* offset itself.                                                          *)
(***************************************************************************)
EXTENDS Integers, Sequences, FiniteSets, TLC

VARIABLES
    now,            \* Date.now(), ms since genesis
    published,      \* latest round whose signature the beacon has published
    reachable,      \* whether the beacon network answers HTTP requests
    cachedClient,   \* timelock.ts: let cachedClient
    clientsBuilt,   \* number of HttpChainClient objects constructed so far
    keysGenerated,  \* number of keypairs openpgp.generateKey has produced
    issued,         \* the bundles hybridEncrypt has returned, in order
    issuedAt,       \* for each of them, the Date.now() its call read (line 42)
    frame,          \* per caller: the call in flight (position and locals)
    result          \* per caller: the outcome of the last finished call

vars == <<now, published, reachable, cachedClient, clientsBuilt,
          keysGenerated, issued, issuedAt, frame, result>>

----------------------------------------------------------------------------
(* Bounds of the model *)

MaxTime == 4500
TickMs == 1500
MaxKeys == 2
PastMs == 20000

Procs == {"a", "b"}
\* The callers active in Spec: one call at a time, each awaited before the
\* next, as the tests and the demo use the API.
Callers == {"a"}
Passwords == {"w1", "w2"}
\* (plaintext, password) pairs handed to hybridEncrypt
Inputs == {<<"p1", "w1">>, <<"p2", "w2">>}
\* The time value of an invalid Date, and of arithmetic on a missing or
\* non-numeric durationMs.
NaN == 0 - 999999999
\* durationMs values a caller passes; -PastMs lands before genesis.
Durations == {NaN, 0 - PastMs, 0, TickMs}

----------------------------------------------------------------------------
(* Chain parameters *)

period == 3
genesis_time == 1692803367
MsPerSecond == 1000

CHAIN_INFO == [period |-> period, genesis_time |-> genesis_time]

----------------------------------------------------------------------------
(* Values *)

NoValue == "none"
Null == "null"
Client == "HttpChainClient"

Ok(v) == [ok |-> TRUE, value |-> v, error |-> NoValue]
Throw(e) == [ok |-> FALSE, value |-> NoValue, error |-> e]

\* Failure kinds.  The repository defines no error classes and catches
\* nothing: a kind names the library call whose exception the caller sees.
TimeLockNotYetAvailableError == "TimeLockNotYetAvailableError"
TimeLockError == "TimeLockError"
PasswordError == "PasswordError"
PayloadIntegrityError == "PayloadIntegrityError"
TypeError == "TypeError"
RoundError == "RoundError"

----------------------------------------------------------------------------
(* openpgp *)

\* Variant: the keypair is generated once and used again by every call.
generatePGPKeys_Reused(k, password) ==
    [privateKey |-> [key |-> 1, passphrase |-> password],
     publicKey |-> [key |-> 1]]

\* openpgp.generateKey({passphrase}): the k-th keypair the library produces.
\* The armored private key is protected by the passphrase.
generatePGPKeys(k, password) ==
    [privateKey |-> [key |-> k, passphrase |-> password],
     publicKey |-> [key |-> k]]

\* openpgp.encrypt({message: createMessage({text}), encryptionKeys}).
\* damage: "none", or where a later change of the armored text sits.
pgpEncrypt(text, publicKey) ==
    [key |-> publicKey.key, text |-> text, damage |-> "none"]

\* openpgp.readMessage({armoredMessage}): parsing the armor.
readMessage(armoredMessage) ==
    IF armoredMessage.damage = "armor"
    THEN Throw(PayloadIntegrityError)
    ELSE Ok(armoredMessage)

\* openpgp.decryptKey({privateKey: readPrivateKey(..), passphrase}).
decryptKey(privateKey, passphrase) ==
    IF privateKey.passphrase = passphrase
    THEN Ok([key |-> privateKey.key])
    ELSE Throw(PasswordError)

\* openpgp.decrypt({message, decryptionKeys}).
pgpDecrypt(message, decryptionKey) ==
    IF message.key # decryptionKey.key \/ message.damage # "none"
    THEN Throw(PayloadIntegrityError)
    ELSE Ok(message.text)

\* new TextEncoder().encode(s) / new TextDecoder().decode(bytes)
TextEncode(s) == [utf8 |-> s]
TextDecode(bytes) == bytes.utf8

----------------------------------------------------------------------------
(* tlock-js and the beacon *)

\* The round the beacon is at (has last published) at an instant: round r
\* is signed at genesis_time + (r - 1) * period, round 1 at genesis.
BeaconRoundAt(time) ==
    IF time < 0 THEN 0 ELSE (time \div (CHAIN_INFO.period * MsPerSecond)) + 1

\* roundAt(time, chain), which tlock-js re-exports from drand-client: the
\* round in progress at `time` (ms),
\*   floor((time - genesis_time * 1000) / (period * 1000)) + 1,
\* and an exception for an instant before genesis.  `time` is an offset
\* from genesis here, so the subtraction is already done.
roundAt(time, chain) ==
    IF time < 0
    THEN Throw(RoundError)
    ELSE Ok((time \div (chain.period * MsPerSecond)) + 1)

\* tlock-js timelockEncrypt(roundNumber, buffer, client): needs the chain's
\* info from the network.
timelockEncrypt(roundNumber, buffer, net) ==
    IF ~net
    THEN Throw(TimeLockError)
    ELSE Ok([round |-> roundNumber, body |-> buffer, damaged |-> FALSE])

\* Variant: the oracle serves only the round the beacon is at.
timelockDecrypt_LatestOnly(ciphertext, net, pub) ==
    IF ciphertext.damaged \/ ~net
    THEN Throw(TimeLockError)
    ELSE IF ciphertext.round # pub
         THEN Throw(TimeLockNotYetAvailableError)
         ELSE Ok(ciphertext.body)

\* tlock-js timelockDecrypt(ciphertext, client): the blob carries its round;
\* the round's signature must have been published.
timelockDecrypt(ciphertext, net, pub) ==
    IF ciphertext.damaged \/ ~net
    THEN Throw(TimeLockError)
    ELSE IF ciphertext.round > pub
         THEN Throw(TimeLockNotYetAvailableError)
         ELSE Ok(ciphertext.body)

----------------------------------------------------------------------------
(* timelock.ts *)

\* Variant: a handle is constructed at every call.
getChainClient_Fresh(cached) ==
    [client |-> Client, built |-> 1]

\* getChainClient(): the cached handle, built on first use.
getChainClient(cached) ==
    IF cached # Null
    THEN [client |-> cached, built |-> 0]
    ELSE [client |-> Client, built |-> 1]

\* Variant: the time-lock is taken one round later than roundAt says.
encryptWithTimelock_NextRound(data, unlockDate, net) ==
    LET r == roundAt(unlockDate, CHAIN_INFO) IN
    IF unlockDate = NaN
    THEN [ret |-> Throw(TypeError), uses |-> 0, steps |-> <<>>]
    ELSE IF ~r.ok
    THEN [ret |-> Throw(r.error), uses |-> 0, steps |-> <<"roundAt">>]
    ELSE LET e == timelockEncrypt(r.value + 1, data, net) IN
         [ret |-> IF e.ok
                  THEN Ok([encrypted |-> e.value, roundNumber |-> r.value + 1])
                  ELSE Throw(e.error),
          uses |-> 1,
          steps |-> <<"roundAt", "timelockEncrypt">>]

\* Variant: roundAt is handed seconds where it expects milliseconds.
encryptWithTimelock_Seconds(data, unlockDate, net) ==
    LET r == roundAt(unlockDate \div MsPerSecond, CHAIN_INFO) IN
    IF unlockDate = NaN
    THEN [ret |-> Throw(TypeError), uses |-> 0, steps |-> <<>>]
    ELSE IF ~r.ok
    THEN [ret |-> Throw(r.error), uses |-> 0, steps |-> <<"roundAt">>]
    ELSE LET e == timelockEncrypt(r.value, data, net) IN
         [ret |-> IF e.ok
                  THEN Ok([encrypted |-> e.value, roundNumber |-> r.value])
                  ELSE Throw(e.error),
          uses |-> 1,
          steps |-> <<"roundAt", "timelockEncrypt">>]

\* Variant: the time-lock is taken two rounds later than roundAt says.
encryptWithTimelock_Margin(data, unlockDate, net) ==
    LET r == roundAt(unlockDate, CHAIN_INFO) IN
    IF unlockDate = NaN
    THEN [ret |-> Throw(TypeError), uses |-> 0, steps |-> <<>>]
    ELSE IF ~r.ok
    THEN [ret |-> Throw(r.error), uses |-> 0, steps |-> <<"roundAt">>]
    ELSE LET e == timelockEncrypt(r.value + 2, data, net) IN
         [ret |-> IF e.ok
                  THEN Ok([encrypted |-> e.value, roundNumber |-> r.value + 2])
                  ELSE Throw(e.error),
          uses |-> 1,
          steps |-> <<"roundAt", "timelockEncrypt">>]

\* Variant: the Date is checked only after the round was computed and the
\* client fetched.
encryptWithTimelock_LateCheck(data, unlockDate, net) ==
    LET r == roundAt(unlockDate, CHAIN_INFO) IN
    IF unlockDate = NaN
    THEN [ret |-> Throw(TypeError), uses |-> 1, steps |-> <<"roundAt">>]
    ELSE IF ~r.ok
    THEN [ret |-> Throw(r.error), uses |-> 0, steps |-> <<"roundAt">>]
    ELSE LET e == timelockEncrypt(r.value, data, net) IN
         [ret |-> IF e.ok
                  THEN Ok([encrypted |-> e.value, roundNumber |-> r.value])
                  ELSE Throw(e.error),
          uses |-> 1,
          steps |-> <<"roundAt", "timelockEncrypt">>]

\* encryptWithTimelock(data, unlockDate) -> {encrypted, roundNumber}
\* uses: 0 when getChainClient was not reached, else 1.
encryptWithTimelock(data, unlockDate, net) ==
    LET r == roundAt(unlockDate, CHAIN_INFO) IN
    IF unlockDate = NaN
    THEN [ret |-> Throw(TypeError), uses |-> 0, steps |-> <<>>]
    ELSE IF ~r.ok
    THEN [ret |-> Throw(r.error), uses |-> 0, steps |-> <<"roundAt">>]
    ELSE LET e == timelockEncrypt(r.value, data, net) IN
         [ret |-> IF e.ok
                  THEN Ok([encrypted |-> e.value, roundNumber |-> r.value])
                  ELSE Throw(e.error),
          uses |-> 1,
          steps |-> <<"roundAt", "timelockEncrypt">>]

\* Variant: every oracle failure is rethrown as one kind.
decryptWithTimelock_OneError(encrypted, net, pub) ==
    LET d == timelockDecrypt(encrypted, net, pub) IN
    IF d.ok THEN d ELSE Throw(TimeLockError)

\* Variant: the blob's content is handed out without waiting for its round.
decryptWithTimelock_NoGate(encrypted, net, pub) ==
    LET d == timelockDecrypt(encrypted, net, pub) IN
    IF d.ok \/ d.error = TimeLockNotYetAvailableError
    THEN Ok(encrypted.body)
    ELSE d

\* decryptWithTimelock(encrypted) -> Uint8Array
decryptWithTimelock(encrypted, net, pub) ==
    timelockDecrypt(encrypted, net, pub)

----------------------------------------------------------------------------
(* hybrid.ts *)

\* A number of milliseconds: whole seconds and the milliseconds left over.
\* 30 and 365 days in milliseconds exceed the 32-bit integers the instants
\* of this model are kept in, so the table keeps the two parts apart.
Millis(s, ms) == [s |-> s, ms |-> ms]
\* The number itself, where it fits.
AsMs(d) == d.s * MsPerSecond + d.ms

\* DURATION_MS (hybrid.ts 11-15): 60 * 1000, 30 * 24 * 60 * 60 * 1000,
\* 365 * 24 * 60 * 60 * 1000.
DURATION_MS ==
    [min |-> Millis(60, 0),
     month |-> Millis(30 * 24 * 60 * 60, 0),
     year |-> Millis(365 * 24 * 60 * 60, 0)]

\* isCustomDurationConfig(config): 'durationMs' in config.
isCustomDurationConfig(config) == "durationMs" \in DOMAIN config

\* Variant: a preset in the config wins over durationMs.
getDurationMs_PresetFirst(config) ==
    IF "duration" \in DOMAIN config
    THEN IF config.duration \in DOMAIN DURATION_MS
         THEN AsMs(DURATION_MS[config.duration])
         ELSE NaN
    ELSE config.durationMs

\* getDurationMs(config): durationMs when the config carries one, else the
\* table's entry for config.duration; undefined, which the addition of line
\* 42 turns into NaN, for a name the table does not have.
getDurationMs(config) ==
    IF isCustomDurationConfig(config)
    THEN config.durationMs
    ELSE IF config.duration \in DOMAIN DURATION_MS
         THEN AsMs(DURATION_MS[config.duration])
         ELSE NaN

\* new Date(ms): its time value; NaN when ms is not a number.
NewDate(ms) == IF ms = NaN THEN NaN ELSE ms
\* a + b on numbers, NaN if either is.
Plus(a, b) == IF a = NaN \/ b = NaN THEN NaN ELSE a + b

\* The bundle hybridEncrypt returns (hybrid.ts 50-56).
EncryptedData(publicKey, encrypted, timelockedKey, unlockTime, roundNumber) ==
    [publicKey |-> publicKey,
     encryptedData |-> encrypted,
     timelockedPrivateKey |-> timelockedKey,
     unlockTime |-> unlockTime,
     roundNumber |-> roundNumber]

\* Variant: the round is taken from the instant of the call, not from the
\* unlock instant.
hybridEncryptLock_RoundOfNow(keys, encrypted, config, time, net) ==
    LET durationMs == getDurationMs(config)
        unlockTime == NewDate(Plus(time, durationMs))
        privateKeyBytes == TextEncode(keys.privateKey)
        t == encryptWithTimelock(privateKeyBytes, time, net)
    IN  [ret |-> IF t.ret.ok
                 THEN Ok(EncryptedData(keys.publicKey, encrypted,
                                       t.ret.value.encrypted, unlockTime,
                                       t.ret.value.roundNumber))
                 ELSE Throw(t.ret.error),
         uses |-> t.uses,
         steps |-> t.steps]

\* Variant: a failure of the time-lock step is swallowed and a bundle
\* without a usable time-locked key is returned.
hybridEncryptLock_Swallow(keys, encrypted, config, time, net) ==
    LET durationMs == getDurationMs(config)
        unlockTime == NewDate(Plus(time, durationMs))
        privateKeyBytes == TextEncode(keys.privateKey)
        t == encryptWithTimelock(privateKeyBytes, unlockTime, net)
    IN  [ret |-> IF t.ret.ok
                 THEN Ok(EncryptedData(keys.publicKey, encrypted,
                                       t.ret.value.encrypted, unlockTime,
                                       t.ret.value.roundNumber))
                 ELSE Ok(EncryptedData(keys.publicKey, encrypted,
                                       [round |-> 0, body |-> privateKeyBytes,
                                        damaged |-> TRUE],
                                       unlockTime, 0)),
         uses |-> t.uses,
         steps |-> t.steps]

\* hybridEncrypt from line 41 on: resolve the unlock instant at `time`,
\* time-lock the private key, assemble the bundle.
hybridEncryptLock(keys, encrypted, config, time, net) ==
    LET durationMs == getDurationMs(config)
        unlockTime == NewDate(Plus(time, durationMs))
        privateKeyBytes == TextEncode(keys.privateKey)
        t == encryptWithTimelock(privateKeyBytes, unlockTime, net)
    IN  [ret |-> IF t.ret.ok
                 THEN Ok(EncryptedData(keys.publicKey, encrypted,
                                       t.ret.value.encrypted, unlockTime,
                                       t.ret.value.roundNumber))
                 ELSE Throw(t.ret.error),
         uses |-> t.uses,
         steps |-> t.steps]

\* Variant: a failed time-lock decryption is tried a second time before the
\* call gives up.
hybridDecryptGate_Retry(encryptedData, net, pub) ==
    LET first == decryptWithTimelock(encryptedData.timelockedPrivateKey,
                                     net, pub)
    IN  IF first.ok
        THEN [ret |-> first, steps |-> <<"timelockDecrypt">>]
        ELSE [ret |-> decryptWithTimelock(encryptedData.timelockedPrivateKey,
                                          net, pub),
              steps |-> <<"timelockDecrypt", "timelockDecrypt">>]

\* hybridDecrypt line 64: the one await of decryptWithTimelock, whose
\* exception leaves the call.
hybridDecryptGate(encryptedData, net, pub) ==
    [ret |-> decryptWithTimelock(encryptedData.timelockedPrivateKey, net, pub),
     steps |-> <<"timelockDecrypt">>]

\* Variant: the private key is unlocked with its own passphrase, whatever
\* password the caller gave.
hybridDecryptPayload_AnyPassword(encryptedData, password, privateKeyBytes) ==
    LET privateKey == TextDecode(privateKeyBytes)
        message == readMessage(encryptedData.encryptedData)
    IN  IF ~message.ok
        THEN [ret |-> Throw(message.error), steps |-> <<"readMessage">>]
        ELSE LET key == decryptKey(privateKey, privateKey.passphrase) IN
             [ret |-> pgpDecrypt(message.value, key.value),
              steps |-> <<"readMessage", "decryptKey", "decrypt">>]

\* Variant: every failure after gate 1 is rethrown as one kind.
hybridDecryptPayload_OneError(encryptedData, password, privateKeyBytes) ==
    LET privateKey == TextDecode(privateKeyBytes)
        message == readMessage(encryptedData.encryptedData)
    IN  IF ~message.ok
        THEN [ret |-> Throw(PayloadIntegrityError), steps |-> <<"readMessage">>]
        ELSE LET key == decryptKey(privateKey, password) IN
             IF ~key.ok
             THEN [ret |-> Throw(PayloadIntegrityError),
                   steps |-> <<"readMessage", "decryptKey">>]
             ELSE [ret |-> pgpDecrypt(message.value, key.value),
                   steps |-> <<"readMessage", "decryptKey", "decrypt">>]

\* Variant: the payload is decrypted without its integrity being checked.
hybridDecryptPayload_Lenient(encryptedData, password, privateKeyBytes) ==
    LET privateKey == TextDecode(privateKeyBytes)
        key == decryptKey(privateKey, password)
    IN  IF ~key.ok
        THEN [ret |-> Throw(key.error), steps |-> <<"decryptKey">>]
        ELSE [ret |-> Ok(encryptedData.encryptedData.text),
              steps |-> <<"decryptKey", "decrypt">>]

\* hybridDecrypt after decryptWithTimelock has returned (lines 65-80).
hybridDecryptPayload(encryptedData, password, privateKeyBytes) ==
    LET privateKey == TextDecode(privateKeyBytes)
        message == readMessage(encryptedData.encryptedData)
    IN  IF ~message.ok
        THEN [ret |-> Throw(message.error), steps |-> <<"readMessage">>]
        ELSE LET key == decryptKey(privateKey, password) IN
             IF ~key.ok
             THEN [ret |-> Throw(key.error),
                   steps |-> <<"readMessage", "decryptKey">>]
             ELSE [ret |-> pgpDecrypt(message.value, key.value),
                   steps |-> <<"readMessage", "decryptKey", "decrypt">>]

----------------------------------------------------------------------------
(* What a holder of a bundle can do to it before handing it to hybridDecrypt *)

Mutations == {"none", "publicKey", "encryptedData.armor", "encryptedData.body",
              "timelockedPrivateKey", "unlockTime", "roundNumber"}

Mutate(b, m) ==
    CASE m = "publicKey" ->
           [b EXCEPT !.publicKey = [key |-> 0]]
      [] m = "encryptedData.armor" ->
           [b EXCEPT !.encryptedData.damage = "armor"]
      [] m = "encryptedData.body" ->
           [b EXCEPT !.encryptedData.damage = "body"]
      [] m = "timelockedPrivateKey" ->
           [b EXCEPT !.timelockedPrivateKey.damaged = TRUE]
      [] m = "unlockTime" ->
           [b EXCEPT !.unlockTime = b.unlockTime + TickMs]
      [] m = "roundNumber" ->
           [b EXCEPT !.roundNumber = b.roundNumber + 1]
      [] OTHER -> b

----------------------------------------------------------------------------
(* Call frames and outcomes *)

IdleFrame ==
    [pc |-> "idle", calledAt |-> 0, data |-> NoValue, config |-> NoValue,
     keys |-> NoValue, encrypted |-> NoValue,
     src |-> 0, mut |-> NoValue, password |-> NoValue,
     privateKeyBytes |-> NoValue, gatePublished |-> 0, steps |-> <<>>]

NoResult ==
    [op |-> "none", ok |-> FALSE, error |-> NoValue, text |-> NoValue,
     index |-> 0, src |-> 0, mut |-> NoValue, password |-> NoValue,
     data |-> NoValue, durationMs |-> 0, calledAt |-> 0, resolvedAt |-> 0,
     gatePublished |-> 0, gateReachable |-> FALSE, steps |-> <<>>,
     custom |-> FALSE, duration |-> NoValue]

Init ==
    /\ now = 0
    /\ published = BeaconRoundAt(0)
    /\ reachable = TRUE
    /\ cachedClient = Null
    /\ clientsBuilt = 0
    /\ keysGenerated = 0
    /\ issued = <<>>
    /\ issuedAt = <<>>
    /\ frame = [p \in Procs |-> IdleFrame]
    /\ result = [p \in Procs |-> NoResult]

----------------------------------------------------------------------------
(* The environment *)

\* Time passes; the beacon publishes every round that has become due.
Tick ==
    /\ now + TickMs <= MaxTime
    /\ now' = now + TickMs
    /\ published' = BeaconRoundAt(now + TickMs)
    /\ UNCHANGED <<reachable, cachedClient, clientsBuilt, keysGenerated,
                   issued, issuedAt, frame, result>>

\* The beacon network becomes unreachable, or reachable again.
NetworkChange ==
    /\ reachable' = ~reachable
    /\ UNCHANGED <<now, published, cachedClient, clientsBuilt, keysGenerated,
                   issued, issuedAt, frame, result>>

----------------------------------------------------------------------------
(* hybridEncrypt *)

\* A caller invokes hybridEncrypt(data, config); the call suspends in
\* generatePGPKeys.
EncryptCall(p, data, password, durationMs) ==
    /\ frame[p].pc = "idle"
    /\ keysGenerated
         + Cardinality({q \in Procs : frame[q].pc = "enc_keys"}) < MaxKeys
    /\ frame' = [frame EXCEPT ![p] =
                   [IdleFrame EXCEPT !.pc = "enc_keys", !.calledAt = now,
                                     !.data = data,
                                     !.config = [password |-> password,
                                                 durationMs |-> durationMs]]]
    /\ result' = [result EXCEPT ![p] = NoResult]
    /\ UNCHANGED <<now, published, reachable, cachedClient, clientsBuilt,
                   keysGenerated, issued, issuedAt>>

\* The same call with any config: a preset, a durationMs, or both.
EncryptCallConfig(p, data, config) ==
    /\ frame[p].pc = "idle"
    /\ keysGenerated
         + Cardinality({q \in Procs : frame[q].pc = "enc_keys"}) < MaxKeys
    /\ frame' = [frame EXCEPT ![p] =
                   [IdleFrame EXCEPT !.pc = "enc_keys", !.calledAt = now,
                                     !.data = data, !.config = config]]
    /\ result' = [result EXCEPT ![p] = NoResult]
    /\ UNCHANGED <<now, published, reachable, cachedClient, clientsBuilt,
                   keysGenerated, issued, issuedAt>>

\* Lines 34-39: the keypair is generated and the payload encrypted.
EncryptKeys(p) ==
    /\ frame[p].pc = "enc_keys"
    /\ LET keys == generatePGPKeys(keysGenerated + 1, frame[p].config.password)
           encrypted == pgpEncrypt(frame[p].data, keys.publicKey)
       IN  frame' = [frame EXCEPT ![p].pc = "enc_lock", ![p].keys = keys,
                                  ![p].encrypted = encrypted]
    /\ keysGenerated' = keysGenerated + 1
    /\ UNCHANGED <<now, published, reachable, cachedClient, clientsBuilt,
                   issued, issuedAt, result>>

\* Lines 41-56: Date.now() is read, the key is time-locked, the bundle
\* returned (or the failure thrown).
EncryptLock(p) ==
    /\ frame[p].pc = "enc_lock"
    /\ LET f == frame[p]
           h == hybridEncryptLock(f.keys, f.encrypted, f.config, now, reachable)
           c == getChainClient(cachedClient)
       IN  /\ issued' = IF h.ret.ok THEN Append(issued, h.ret.value) ELSE issued
           /\ issuedAt' = IF h.ret.ok THEN Append(issuedAt, now) ELSE issuedAt
           /\ cachedClient' = IF h.uses > 0 THEN c.client ELSE cachedClient
           /\ clientsBuilt' = IF h.uses > 0 THEN clientsBuilt + c.built
                              ELSE clientsBuilt
           /\ result' = [result EXCEPT ![p] =
                           [NoResult EXCEPT
                              !.op = "encrypt", !.ok = h.ret.ok,
                              !.error = h.ret.error,
                              !.index = IF h.ret.ok THEN Len(issued) + 1 ELSE 0,
                              !.password = f.config.password,
                              !.data = f.data,
                              !.durationMs =
                                 IF isCustomDurationConfig(f.config)
                                 THEN f.config.durationMs ELSE 0,
                              !.custom = isCustomDurationConfig(f.config),
                              !.duration =
                                 IF "duration" \in DOMAIN f.config
                                 THEN f.config.duration ELSE NoValue,
                              !.calledAt = f.calledAt, !.resolvedAt = now,
                              !.gateReachable = reachable,
                              !.steps = h.steps]]
    /\ frame' = [frame EXCEPT ![p] = IdleFrame]
    /\ UNCHANGED <<now, published, reachable, keysGenerated>>

----------------------------------------------------------------------------
(* hybridDecrypt *)

\* A caller invokes hybridDecrypt(bundle, password) on a bundle it holds,
\* possibly changed; line 64: the time-lock oracle answers (gate 1).
DecryptCall(p, i, m, password) ==
    /\ frame[p].pc = "idle"
    /\ i \in 1..Len(issued)
    /\ LET encryptedData == Mutate(issued[i], m)
           c == getChainClient(cachedClient)
           gate == hybridDecryptGate(encryptedData, reachable, published)
           g == gate.ret
       IN  /\ cachedClient' = c.client
           /\ clientsBuilt' = clientsBuilt + c.built
           /\ IF g.ok
              THEN /\ frame' = [frame EXCEPT ![p] =
                                  [IdleFrame EXCEPT
                                     !.pc = "dec_payload", !.calledAt = now,
                                     !.src = i, !.mut = m,
                                     !.password = password,
                                     !.privateKeyBytes = g.value,
                                     !.gatePublished = published,
                                     !.steps = gate.steps]]
                   /\ result' = [result EXCEPT ![p] = NoResult]
              ELSE /\ result' = [result EXCEPT ![p] =
                                   [NoResult EXCEPT
                                      !.op = "decrypt", !.ok = FALSE,
                                      !.error = g.error, !.src = i, !.mut = m,
                                      !.password = password, !.calledAt = now,
                                      !.gatePublished = published,
                                      !.gateReachable = reachable,
                                      !.steps = gate.steps]]
                   /\ UNCHANGED frame
    /\ UNCHANGED <<now, published, reachable, keysGenerated, issued, issuedAt>>

\* Lines 65-80: the payload is parsed, the private key unlocked with the
\* password (gate 2), the payload decrypted.
DecryptPayload(p) ==
    /\ frame[p].pc = "dec_payload"
    /\ LET f == frame[p]
           h == hybridDecryptPayload(Mutate(issued[f.src], f.mut), f.password,
                                     f.privateKeyBytes)
       IN  result' = [result EXCEPT ![p] =
                        [NoResult EXCEPT
                           !.op = "decrypt", !.ok = h.ret.ok,
                           !.error = h.ret.error,
                           !.text = h.ret.value,
                           !.src = f.src, !.mut = f.mut,
                           !.password = f.password, !.calledAt = f.calledAt,
                           !.gatePublished = f.gatePublished,
                           !.gateReachable = TRUE,
                           !.steps = f.steps \o h.steps]]
    /\ frame' = [frame EXCEPT ![p] = IdleFrame]
    /\ UNCHANGED <<now, published, reachable, cachedClient, clientsBuilt,
                   keysGenerated, issued, issuedAt>>

----------------------------------------------------------------------------

Next ==
    \/ Tick
    \/ NetworkChange
    \/ \E p \in Callers, in \in Inputs, durationMs \in Durations :
          EncryptCall(p, in[1], in[2], durationMs)
    \/ \E p \in Callers : EncryptKeys(p)
    \/ \E p \in Callers : EncryptLock(p)
    \/ \E p \in Callers, i \in 1..MaxKeys, m \in Mutations,
          password \in Passwords : DecryptCall(p, i, m, password)
    \/ \E p \in Callers : DecryptPayload(p)

Spec == Init /\ [][Next]_vars

----------------------------------------------------------------------------
(* What a bundle was made from, and the finished calls *)

PasswordOf(b) == b.timelockedPrivateKey.body.utf8.passphrase
PlaintextOf(b) == b.encryptedData.text
PeriodMs == CHAIN_INFO.period * MsPerSecond

\* The finished hybridDecrypt calls whose outcome is on record.
Decrypted == {p \in Procs : result[p].op = "decrypt"}

\* The oracle could serve the bundle's round when the call asked for it.
RoundAvailable(r) ==
    r.gateReachable /\ r.gatePublished >= issued[r.src].roundNumber

Returned(r) == r.ok /\ r.text # NoValue

----------------------------------------------------------------------------
(* C1 -- dual-factor necessity: a hybridDecrypt call returns plaintext only
   if the beacon had published the bundle's round when it was called and the
   password is the one the bundle was made with; when either fails, the call
   fails and returns no plaintext. *)
DualFactorNecessity ==
    \A p \in Decrypted :
        LET r == result[p]
            both == /\ r.gatePublished >= issued[r.src].roundNumber
                    /\ r.password = PasswordOf(issued[r.src])
        IN  /\ Returned(r) => both
            /\ ~both => (~r.ok /\ r.text = NoValue)

\* Reached: a call with the right password failed because the round was not out.
DualFactorWitness ==
    \E p \in Decrypted :
        LET r == result[p] IN
        /\ r.mut = "none"
        /\ r.password = PasswordOf(issued[r.src])
        /\ r.gateReachable
        /\ r.gatePublished < issued[r.src].roundNumber
        /\ ~r.ok

(* C2 -- round trip: decrypting an unchanged bundle with its own password at
   or after its unlock instant, the oracle answering, returns exactly the
   plaintext that was encrypted. *)
RoundTrip ==
    \A p \in Decrypted :
        LET r == result[p] IN
        (/\ r.mut = "none"
         /\ r.password = PasswordOf(issued[r.src])
         /\ r.calledAt >= issued[r.src].unlockTime
         /\ r.gateReachable)
        => (r.ok /\ r.text = PlaintextOf(issued[r.src]))

\* Reached: a bundle locked for a future instant was opened after that instant.
RoundTripWitness ==
    \E p \in Decrypted :
        LET r == result[p] IN
        /\ r.mut = "none"
        /\ issued[r.src].unlockTime > issuedAt[r.src]
        /\ r.calledAt > issued[r.src].unlockTime
        /\ r.ok
        /\ r.text = PlaintextOf(issued[r.src])

(* C3 -- coercion resistance: every hybridDecrypt call made strictly before
   the bundle's unlock instant fails, whatever the password. *)
NoPlaintextBeforeUnlock ==
    \A p \in Decrypted :
        LET r == result[p] IN
        r.calledAt < issued[r.src].unlockTime => ~r.ok

(* C4 -- gate 2: with the bundle's round available, a wrong password fails
   with PasswordError (not with a gate-1 kind) and the right password
   succeeds. *)
Gate2Enforced ==
    \A p \in Decrypted :
        LET r == result[p] IN
        (r.mut = "none" /\ RoundAvailable(r))
        => IF r.password = PasswordOf(issued[r.src])
           THEN r.ok
           ELSE /\ ~r.ok
                /\ r.error = PasswordError
                /\ r.error \notin {TimeLockNotYetAvailableError, TimeLockError}

\* Reached: a wrong password was turned away after the round came out.
Gate2Witness ==
    \E p \in Decrypted :
        LET r == result[p] IN
        /\ r.mut = "none"
        /\ RoundAvailable(r)
        /\ r.password # PasswordOf(issued[r.src])
        /\ r.error = PasswordError

(* C5 -- a call that fails because the round is not yet published fails with
   TimeLockNotYetAvailableError; an oracle failure that has nothing to do
   with the round (network down, blob rejected) fails with TimeLockError,
   a different kind. *)
NotYetDistinct ==
    /\ TimeLockNotYetAvailableError # TimeLockError
    /\ \A p \in Decrypted :
        LET r == result[p]
            b == Mutate(issued[r.src], r.mut)
            infra == ~r.gateReachable \/ b.timelockedPrivateKey.damaged
            early == r.gatePublished < b.timelockedPrivateKey.round
        IN  /\ (~infra /\ early) => (~r.ok /\ r.error = TimeLockNotYetAvailableError)
            /\ infra => (~r.ok /\ r.error = TimeLockError)
            /\ r.error = TimeLockNotYetAvailableError => (~infra /\ early)

\* Reached: one caller was told "not yet".
NotYetWitness ==
    \E p \in Decrypted :
        LET r == result[p] IN
        /\ r.gateReachable
        /\ r.gatePublished < issued[r.src].roundNumber
        /\ r.error = TimeLockNotYetAvailableError

(* C6 -- tamper detection: with the round available and the right password,
   a bundle whose encryptedData or timelockedPrivateKey was changed fails
   with PayloadIntegrityError or TimeLockError and returns no plaintext. *)
TamperDetected ==
    \A p \in Decrypted :
        LET r == result[p] IN
        (/\ r.mut \in {"encryptedData.armor", "encryptedData.body",
                       "timelockedPrivateKey"}
         /\ RoundAvailable(r)
         /\ r.password = PasswordOf(issued[r.src]))
        => /\ ~r.ok
           /\ r.text = NoValue
           /\ r.error \in {PayloadIntegrityError, TimeLockError}

\* Reached: a changed payload was rejected at the last step.
TamperWitness ==
    \E p \in Decrypted :
        LET r == result[p] IN
        /\ r.mut = "encryptedData.body"
        /\ RoundAvailable(r)
        /\ r.password = PasswordOf(issued[r.src])
        /\ r.error = PayloadIntegrityError

(* C7 -- as claimed: hybridDecrypt fails on a bundle any of whose five
   fields was changed after creation. *)
AnyMutationFails ==
    \A p \in Decrypted :
        result[p].mut # "none" => ~result[p].ok

(* C7 -- as the code has it: a changed encryptedData or timelockedPrivateKey
   makes hybridDecrypt fail; a changed publicKey, unlockTime or roundNumber
   does not: none of the three is read, and with the round available and the
   right password the original plaintext is returned. *)
ReadFieldsMutationFails ==
    \A p \in Decrypted :
        LET r == result[p] IN
        /\ r.mut \in {"encryptedData.armor", "encryptedData.body",
                      "timelockedPrivateKey"} => ~r.ok
        /\ (/\ r.mut \in {"publicKey", "unlockTime", "roundNumber"}
            /\ r.gateReachable
            /\ r.gatePublished >= issued[r.src].roundNumber
            /\ r.password = PasswordOf(issued[r.src]))
           => (r.ok /\ r.text = PlaintextOf(issued[r.src]))

\* Reached: a bundle with a changed roundNumber was decrypted.
UnreadFieldWitness ==
    \E p \in Decrypted :
        /\ result[p].mut = "roundNumber"
        /\ result[p].ok
        /\ result[p].text = PlaintextOf(issued[result[p].src])

----------------------------------------------------------------------------
(* Round arithmetic *)

\* ceil(a / b) for b > 0
CeilDiv(a, b) == 0 - ((0 - a) \div b)

\* The round of the specification: ceil((t - genesis) / period) + 1, at least 1.
CeilRound(t) ==
    LET r == CeilDiv(t, PeriodMs) + 1 IN IF r < 1 THEN 1 ELSE r

(* C8 -- the roundNumber of a bundle is ceil((unlockInstant - genesisTime) /
   period) + 1, clamped to at least 1. *)
RoundIsCeilPlusOne ==
    \A i \in 1..Len(issued) :
        issued[i].roundNumber = CeilRound(issued[i].unlockTime)

(* C9 -- round monotonicity: of two bundles, the one with the later unlock
   instant has a round at least as large, and a strictly larger one when the
   instants are a period or more apart. *)
RoundMonotonic ==
    \A i, j \in 1..Len(issued) :
        issued[i].unlockTime < issued[j].unlockTime
        => /\ issued[i].roundNumber <= issued[j].roundNumber
           /\ issued[j].unlockTime - issued[i].unlockTime >= PeriodMs
              => issued[i].roundNumber < issued[j].roundNumber

\* Reached: two bundles a period or more apart.
RoundMonotonicWitness ==
    \E i, j \in 1..Len(issued) :
        /\ issued[j].unlockTime - issued[i].unlockTime >= PeriodMs
        /\ issued[i].roundNumber < issued[j].roundNumber

(* C10 -- round determinism: two bundles with the same unlock instant have
   the same roundNumber, whenever they were made and whatever plaintext and
   password they were made from. *)
RoundDeterministic ==
    \A i, j \in 1..Len(issued) :
        issued[i].unlockTime = issued[j].unlockTime
        => issued[i].roundNumber = issued[j].roundNumber

\* Reached: the same unlock instant asked for at two different times, with
\* different plaintexts and passwords.
RoundDeterministicWitness ==
    \E i, j \in 1..Len(issued) :
        /\ i # j
        /\ issued[i].unlockTime = issued[j].unlockTime
        /\ issuedAt[i] # issuedAt[j]
        /\ PasswordOf(issued[i]) # PasswordOf(issued[j])
        /\ PlaintextOf(issued[i]) # PlaintextOf(issued[j])

----------------------------------------------------------------------------
(* Calls made one after the other, with durations a period apart *)

SeqDurations == {0, PeriodMs}

\* One caller, so that a call starts only when the one before has returned.
SeqNext ==
    \/ Tick
    \/ NetworkChange
    \/ \E p \in Callers, in \in Inputs, durationMs \in SeqDurations :
          EncryptCall(p, in[1], in[2], durationMs)
    \/ \E p \in Callers : EncryptKeys(p)
    \/ \E p \in Callers : EncryptLock(p)
    \/ \E p \in Callers, i \in 1..MaxKeys, password \in Passwords :
          DecryptCall(p, i, "none", password)
    \/ \E p \in Callers : DecryptPayload(p)

SeqSpec == Init /\ [][SeqNext]_vars

\* The duration a bundle was asked with: line 42 adds it to the clock.
DurationOf(i) == issued[i].unlockTime - issuedAt[i]

(* C11 -- of two hybridEncrypt calls made one after the other, the second
   with a duration longer than the first by a beacon period or more, the
   second bundle has the strictly greater roundNumber. *)
LongerDurationLaterRound ==
    \A i, j \in 1..Len(issued) :
        (i < j /\ DurationOf(j) - DurationOf(i) >= PeriodMs)
        => issued[j].roundNumber > issued[i].roundNumber

\* Reached: a bundle of duration 0 followed by a bundle of a period's
\* duration, made at a later moment.
LongerDurationWitness ==
    \E i, j \in 1..Len(issued) :
        /\ i < j
        /\ DurationOf(j) - DurationOf(i) >= PeriodMs
        /\ issuedAt[j] > issuedAt[i]
        /\ issued[j].roundNumber > issued[i].roundNumber

----------------------------------------------------------------------------
(* C12 -- bounded availability: a bundle's round is published no later than
   one beacon period after its unlock instant, and a hybridDecrypt call made
   at or after that moment on the unchanged bundle, with its password and
   the oracle answering, returns the plaintext; a caller polling from the
   unlock instant on has it by unlockTime + period. *)
BoundedAvailability ==
    /\ \A i \in 1..Len(issued) :
          now >= issued[i].unlockTime + PeriodMs
          => published >= issued[i].roundNumber
    /\ \A p \in Decrypted :
          LET r == result[p]
              b == issued[r.src]
          IN  (/\ r.mut = "none"
               /\ r.password = PasswordOf(b)
               /\ r.gateReachable
               /\ r.calledAt >= b.unlockTime + PeriodMs)
              => (Returned(r) /\ r.text = PlaintextOf(b))

\* Reached: a poll made a period after the unlock instant returned the
\* plaintext.
BoundedAvailabilityWitness ==
    \E p \in Decrypted :
        LET r == result[p]
            b == issued[r.src]
        IN  /\ r.mut = "none"
            /\ r.password = PasswordOf(b)
            /\ r.calledAt >= b.unlockTime + PeriodMs
            /\ b.unlockTime > issuedAt[r.src]
            /\ Returned(r)

----------------------------------------------------------------------------
(* Calls running concurrently: two callers whose calls interleave at every
   await of hybridEncrypt and hybridDecrypt, the oracle answering *)

ConcDurations == {TickMs}

ConcNext ==
    \/ Tick
    \/ \E p \in Procs, in \in Inputs, durationMs \in ConcDurations :
          EncryptCall(p, in[1], in[2], durationMs)
    \/ \E p \in Procs : EncryptKeys(p)
    \/ \E p \in Procs : EncryptLock(p)
    \/ \E p \in Procs, i \in 1..MaxKeys, password \in Passwords :
          DecryptCall(p, i, "none", password)
    \/ \E p \in Procs : DecryptPayload(p)

ConcSpec == Init /\ [][ConcNext]_vars

----------------------------------------------------------------------------
(* C13 -- the validity window never closes: when a hybridDecrypt call on an
   unchanged bundle has returned the plaintext, every hybridDecrypt call
   made at that moment or later on the same unchanged bundle with the same
   password, the oracle answering, returns the same plaintext, whatever
   calls were made in between. *)
WindowStaysOpen ==
    \A p, q \in Decrypted :
        LET r == result[p]
            s == result[q]
        IN  (/\ Returned(r) /\ r.mut = "none"
             /\ s.src = r.src /\ s.mut = "none"
             /\ s.password = r.password
             /\ s.calledAt >= r.calledAt
             /\ s.gateReachable)
            => (Returned(s) /\ s.text = r.text)

\* Reached: a bundle opened by one caller and, at a later moment, opened
\* again by the other.
WindowStaysOpenWitness ==
    \E p, q \in Decrypted :
        LET r == result[p]
            s == result[q]
        IN  /\ p # q
            /\ Returned(r) /\ r.mut = "none"
            /\ s.src = r.src /\ s.mut = "none"
            /\ s.password = r.password
            /\ s.calledAt > r.calledAt
            /\ Returned(s) /\ s.text = r.text

----------------------------------------------------------------------------
(* Malformed bundles *)

\* The failure the specification names for a bundle that is not well-formed.
InvalidBundleError == "InvalidBundleError"

\* The changes that leave a field of the bundle not well-formed.
MalformedMutations == {"encryptedData.armor", "timelockedPrivateKey"}

(* C14 -- a hybridDecrypt call on a bundle with a field that is not
   well-formed fails with InvalidBundleError, before the time-lock oracle is
   asked anything. *)
MalformedRejectedFirst ==
    \A p \in Decrypted :
        LET r == result[p]
        IN  r.mut \in MalformedMutations
            => /\ ~r.ok
               /\ r.error = InvalidBundleError
               /\ \A k \in 1..Len(r.steps) : r.steps[k] # "timelockDecrypt"

----------------------------------------------------------------------------
(* The steps a call made *)

\* How many times a finished call made a step.
Attempts(r, step) == Cardinality({k \in 1..Len(r.steps) : r.steps[k] = step})

\* The steps that fail with a given failure.
StepsFailingWith(e) ==
    CASE e = TimeLockNotYetAvailableError -> {"timelockDecrypt"}
      [] e = TimeLockError -> {"timelockDecrypt", "timelockEncrypt"}
      [] e = PayloadIntegrityError -> {"readMessage", "decrypt"}
      [] e = PasswordError -> {"decryptKey"}
      [] e = RoundError -> {"roundAt"}
      [] OTHER -> {}

\* The step a failed call made last is the one its failure comes from;
\* the failure of the Date check precedes every step.
EndedAtFailure(r) ==
    IF r.error = TypeError
    THEN r.steps = <<>>
    ELSE /\ r.steps # <<>>
         /\ r.steps[Len(r.steps)] \in StepsFailingWith(r.error)

(* C15 -- no internal retry: a hybridDecrypt call makes one time-lock
   decryption attempt, a hybridEncrypt call at most one time-lock encryption
   attempt, no step is made twice, and a call that failed made no step after
   the one that failed. *)
NoInternalRetry ==
    \A p \in Procs :
        LET r == result[p]
        IN  /\ r.op = "decrypt" => Attempts(r, "timelockDecrypt") = 1
            /\ r.op = "encrypt" => Attempts(r, "timelockEncrypt") <= 1
            /\ \A k, l \in 1..Len(r.steps) : r.steps[k] = r.steps[l] => k = l
            /\ (r.op # "none" /\ ~r.ok) => EndedAtFailure(r)

\* Reached: a call that failed at the oracle because the round is not out,
\* after its one attempt.
NoInternalRetryWitness ==
    \E p \in Decrypted :
        /\ ~result[p].ok
        /\ result[p].error = TimeLockNotYetAvailableError
        /\ result[p].steps = <<"timelockDecrypt">>

----------------------------------------------------------------------------
(* Complete results *)

\* A bundle with its five fields, each the product of a step that succeeded.
Complete(b) ==
    /\ DOMAIN b = {"publicKey", "encryptedData", "timelockedPrivateKey",
                   "unlockTime", "roundNumber"}
    /\ b.encryptedData.key = b.publicKey.key
    /\ b.encryptedData.damage = "none"
    /\ ~b.timelockedPrivateKey.damaged
    /\ b.timelockedPrivateKey.body.utf8.key = b.publicKey.key
    /\ b.timelockedPrivateKey.round = b.roundNumber
    /\ b.unlockTime # NaN
    /\ b.roundNumber >= 1

(* C16 -- no partial result: a hybridEncrypt call returns a bundle only when
   round computation and time-lock encryption (after key generation and
   payload encryption) all succeeded, and the bundle then has all five
   fields set; a call with a failed step returns no bundle.  A hybridDecrypt
   call returns the whole plaintext the bundle was made from, or a failure
   and no text. *)
NoPartialResult ==
    /\ \A i \in 1..Len(issued) : Complete(issued[i])
    /\ \A p \in Procs :
          LET r == result[p]
          IN  /\ r.op = "encrypt"
                 => IF r.ok
                    THEN /\ r.index \in 1..Len(issued)
                         /\ r.steps = <<"roundAt", "timelockEncrypt">>
                         /\ r.gateReachable
                         /\ r.error = NoValue
                    ELSE /\ r.index = 0
                         /\ r.error # NoValue
              /\ r.op = "decrypt"
                 => IF r.ok
                    THEN /\ r.text = PlaintextOf(issued[r.src])
                         /\ r.error = NoValue
                    ELSE /\ r.text = NoValue
                         /\ r.error # NoValue

\* Reached: a hybridEncrypt call whose time-lock encryption failed after its
\* round was computed, leaving no bundle.
NoPartialResultWitness ==
    \E p \in Procs :
        /\ result[p].op = "encrypt"
        /\ ~result[p].ok
        /\ result[p].steps = <<"roundAt", "timelockEncrypt">>
        /\ result[p].index = 0
        /\ Len(issued) = 0

----------------------------------------------------------------------------
(* Keypairs *)

\* The callers between generatePGPKeys and the return of hybridEncrypt.
HoldingKeys == {p \in Procs : frame[p].pc = "enc_lock"}

(* C17 -- fresh keys: every hybridEncrypt call generates one new keypair; no
   two bundles, and no bundle and call in progress, share a keypair, even
   when made from the same plaintext, password and duration; once a call has
   returned, its private key is held nowhere but in the bundle's
   timelockedPrivateKey. *)
FreshKeys ==
    /\ \A i, j \in 1..Len(issued) :
          i # j => issued[i].publicKey.key # issued[j].publicKey.key
    /\ \A p \in HoldingKeys :
          /\ \A i \in 1..Len(issued) :
                issued[i].publicKey.key # frame[p].keys.publicKey.key
          /\ \A q \in HoldingKeys :
                q # p => frame[q].keys.publicKey.key
                         # frame[p].keys.publicKey.key
    /\ keysGenerated = Len(issued) + Cardinality(HoldingKeys)
    /\ \A p \in Procs :
          frame[p].pc = "idle"
          => frame[p].keys = NoValue /\ frame[p].privateKeyBytes = NoValue

\* Reached: two bundles made by concurrent calls from the same plaintext,
\* password and duration at the same moment.
FreshKeysWitness ==
    \E i, j \in 1..Len(issued) :
        /\ i # j
        /\ PlaintextOf(issued[i]) = PlaintextOf(issued[j])
        /\ PasswordOf(issued[i]) = PasswordOf(issued[j])
        /\ issued[i].unlockTime = issued[j].unlockTime
        /\ issuedAt[i] = issuedAt[j]
        /\ issued[i].publicKey.key # issued[j].publicKey.key

----------------------------------------------------------------------------
(* The oracle client *)

\* A step in which a call reaches getChainClient: hybridEncrypt passing its
\* time-lock step, or hybridDecrypt starting.
ReachesGetChainClient ==
    \E p \in Procs :
        \/ frame[p].pc = "enc_lock" /\ frame'[p].pc = "idle"
        \/ /\ frame[p].pc = "idle"
           /\ \/ frame'[p].pc = "dec_payload"
              \/ result'[p].op = "decrypt" /\ result'[p] # result[p]

(* C18 -- oracle client lifecycle: the client handle is constructed at most
   once, and only in a step where a call reaches getChainClient; before that
   there is none; once constructed, cachedClient is never reset or replaced
   and every later getChainClient call returns it. *)
ClientLifecycle ==
    /\ [](/\ clientsBuilt <= 1
          /\ cachedClient \in {Null, Client}
          /\ cachedClient = Null <=> clientsBuilt = 0
          /\ cachedClient # Null
             => getChainClient(cachedClient)
                = [client |-> cachedClient, built |-> 0])
    /\ [][/\ cachedClient # Null
             => cachedClient' = cachedClient /\ clientsBuilt' = clientsBuilt
          /\ cachedClient' # cachedClient
             => clientsBuilt' = clientsBuilt + 1 /\ ReachesGetChainClient]_vars

\* Reached: the handle built once and used by the calls that made and
\* opened two bundles.
ClientLifecycleWitness ==
    /\ cachedClient = Client
    /\ clientsBuilt = 1
    /\ Len(issued) >= 2
    /\ \E p \in Decrypted : result[p].ok

----------------------------------------------------------------------------
(* Calls that overlap *)

\* What a hybridEncrypt call returns when it runs alone: a bundle made from
\* its own plaintext, password and keypair, locked for the round of the
\* clock at its time-lock step plus its own duration.
AloneEncryptOutcome(r) ==
    /\ r.ok
    /\ r.index \in 1..Len(issued)
    /\ LET b == issued[r.index]
       IN  /\ PlaintextOf(b) = r.data
           /\ PasswordOf(b) = r.password
           /\ b.unlockTime = r.resolvedAt + r.durationMs
           /\ b.roundNumber = (b.unlockTime \div PeriodMs) + 1
           /\ b.timelockedPrivateKey.round = b.roundNumber
           /\ b.encryptedData.key = b.publicKey.key
           /\ b.timelockedPrivateKey.body.utf8.key = b.publicKey.key

\* What a hybridDecrypt call on an unchanged bundle returns when it runs
\* alone, the oracle answering: the not-yet failure while the round is not
\* out, then the password failure for a wrong password, else the plaintext.
AloneDecryptOutcome(r) ==
    LET b == issued[r.src]
    IN  IF r.gatePublished < b.roundNumber
        THEN ~r.ok /\ r.error = TimeLockNotYetAvailableError
                   /\ r.text = NoValue
        ELSE IF r.password # PasswordOf(b)
        THEN ~r.ok /\ r.error = PasswordError /\ r.text = NoValue
        ELSE r.ok /\ r.text = PlaintextOf(b)

\* The callers whose locals or outcome a step changes.
Touched ==
    {p \in Procs : \/ frame'[p].pc # frame[p].pc
                   \/ frame'[p].pc = frame[p].pc /\ frame'[p] # frame[p]
                   \/ result'[p] # result[p]}

(* C19 -- concurrent independence: whatever way concurrently running
   hybridEncrypt and hybridDecrypt calls interleave at their awaits, the
   outcome of each call is the one it has when it runs alone with the same
   arguments at the same times; a step of one call changes nothing of
   another call, and a bundle once returned is not changed. *)
ConcurrentIndependence ==
    /\ [](\A p \in Procs :
            LET r == result[p]
            IN  /\ r.op = "encrypt" => AloneEncryptOutcome(r)
                /\ (r.op = "decrypt" /\ r.mut = "none" /\ r.gateReachable)
                   => AloneDecryptOutcome(r))
    /\ [][/\ Cardinality(Touched) <= 1
          /\ \A i \in 1..Len(issued) :
                /\ Len(issued') >= Len(issued)
                /\ issued'[i] = issued[i]]_vars

\* Reached: a hybridEncrypt call that started before and returned after
\* another caller's hybridEncrypt call with another plaintext and password,
\* both bundles on record.
ConcurrentIndependenceWitness ==
    \E p, q \in Procs :
        LET r == result[p]
            s == result[q]
        IN  /\ p # q
            /\ r.op = "encrypt" /\ s.op = "encrypt"
            /\ r.ok /\ s.ok
            /\ r.calledAt < s.calledAt
            /\ s.resolvedAt < r.resolvedAt
            /\ r.data # s.data
            /\ r.password # s.password
            /\ r.index > s.index

----------------------------------------------------------------------------
(* C20 -- a past unlock instant is not an error: a hybridEncrypt call with a
   zero or negative duration, the oracle answering, succeeds and returns a
   bundle whose round the beacon has already published. *)
PastInstantSucceeds ==
    \A p \in Procs :
        LET r == result[p]
        IN  (/\ r.op = "encrypt"
             /\ r.durationMs # NaN
             /\ r.durationMs <= 0
             /\ r.gateReachable)
            => /\ r.ok
               /\ r.index \in 1..Len(issued)
               /\ issued[r.index].roundNumber <= BeaconRoundAt(r.resolvedAt)

----------------------------------------------------------------------------
(* Calls with duration presets *)

\* The configs a caller passes: each preset alone is 'min' here (the others
\* lie beyond the instants of this model), a durationMs alone, both at once,
\* a preset name the table does not have, and a durationMs that is NaN.
PresetConfigs ==
    {[password |-> "w1", duration |-> "min"],
     [password |-> "w1", durationMs |-> TickMs],
     [password |-> "w1", durationMs |-> TickMs, duration |-> "min"],
     [password |-> "w1", duration |-> "decade"],
     [password |-> "w1", durationMs |-> NaN]}

PresetNext ==
    \/ Tick
    \/ NetworkChange
    \/ \E p \in Callers, config \in PresetConfigs :
          EncryptCallConfig(p, "p1", config)
    \/ \E p \in Callers : EncryptKeys(p)
    \/ \E p \in Callers : EncryptLock(p)
    \/ \E p \in Callers, i \in 1..MaxKeys, password \in Passwords :
          DecryptCall(p, i, "none", password)
    \/ \E p \in Callers : DecryptPayload(p)

PresetSpec == Init /\ [][PresetNext]_vars

\* n days in milliseconds.
DaysInMs(n) == [s |-> n * 86400, ms |-> 0]

\* The duration a finished hybridEncrypt call asked for.
RequestedMs(r) ==
    IF r.custom THEN r.durationMs
    ELSE IF r.duration = "min" THEN 60000
    ELSE NaN

(* C21 -- unlock-instant resolution: 'min' resolves to 60,000 ms, 'month' to
   30 days and 'year' to 365 days in milliseconds; a config carrying
   durationMs resolves to that value, whatever preset it also carries; and
   the unlockTime of a returned bundle is the clock reading at resolution
   plus the resolved duration. *)
UnlockInstantResolution ==
    /\ AsMs(DURATION_MS.min) = 60000
    /\ DURATION_MS.month = DaysInMs(30)
    /\ DURATION_MS.year = DaysInMs(365)
    /\ \A config \in PresetConfigs :
          "durationMs" \in DOMAIN config
          => getDurationMs(config) = config.durationMs
    /\ \A p \in Procs :
          LET r == result[p]
          IN  (r.op = "encrypt" /\ r.ok)
              => /\ RequestedMs(r) # NaN
                 /\ issued[r.index].unlockTime = r.resolvedAt + RequestedMs(r)

\* Reached: a bundle made with the preset 'min', and after it a call whose
\* config carried a durationMs and a preset.
UnlockInstantResolutionWitness ==
    \E p \in Procs :
        LET r == result[p]
        IN  /\ r.op = "encrypt" /\ r.ok
            /\ r.custom /\ r.duration = "min"
            /\ r.resolvedAt > 0
            /\ issued[r.index].unlockTime = r.resolvedAt + TickMs
            /\ \E i \in 1..Len(issued) :
                  issued[i].unlockTime - issuedAt[i] = 60000

----------------------------------------------------------------------------
(* The order of the gates *)

\* Gate 1 let the call through: the blob was intact and its round was out
\* when the oracle was asked.
Gate1Passed(src, mut, gatePublished) ==
    /\ mut # "timelockedPrivateKey"
    /\ gatePublished >= issued[src].timelockedPrivateKey.round

(* C22 -- gate ordering: in every hybridDecrypt call the time-lock
   decryption is the first step, and the payload is parsed, the password
   tried and the payload decrypted only in a call whose time-lock decryption
   succeeded; a call whose gate 1 failed never tried the password. *)
GateOrdering ==
    /\ \A p \in Decrypted :
          LET r == result[p]
          IN  /\ r.steps # <<>>
              /\ r.steps[1] = "timelockDecrypt"
              /\ \A k \in 2..Len(r.steps) :
                    /\ r.steps[k] \in {"readMessage", "decryptKey", "decrypt"}
                    /\ Gate1Passed(r.src, r.mut, r.gatePublished)
              /\ ~Gate1Passed(r.src, r.mut, r.gatePublished)
                 => /\ ~r.ok
                    /\ r.error \in {TimeLockNotYetAvailableError,
                                    TimeLockError}
    /\ \A p \in Procs :
          frame[p].pc = "dec_payload"
          => Gate1Passed(frame[p].src, frame[p].mut, frame[p].gatePublished)

\* Reached: a call with a wrong password on a bundle whose round is not out
\* failed at gate 1 without the password being tried.
GateOrderingWitness ==
    \E p \in Decrypted :
        LET r == result[p]
        IN  /\ r.mut = "none"
            /\ r.password # PasswordOf(issued[r.src])
            /\ r.gateReachable
            /\ r.gatePublished < issued[r.src].roundNumber
            /\ r.error = TimeLockNotYetAvailableError
            /\ r.steps = <<"timelockDecrypt">>

----------------------------------------------------------------------------
(* C23 -- first-failure ordering: the password gate comes before payload
   integrity, so a hybridDecrypt call on a bundle whose round is out, with a
   corrupted encryptedData and a wrong password, fails with PasswordError and
   not with a payload error. *)
FirstFailureOrder ==
    \A p \in Decrypted :
        LET r == result[p]
        IN  (/\ r.mut \in {"encryptedData.armor", "encryptedData.body"}
             /\ RoundAvailable(r)
             /\ r.password # PasswordOf(issued[r.src]))
            => (~r.ok /\ r.error = PasswordError)

----------------------------------------------------------------------------
(* C24 -- bundle consistency: in every bundle hybridEncrypt returned,
   roundNumber is the round roundAt gives for the bundle's own unlockTime,
   timelockedPrivateKey was time-locked for exactly that round, and it holds
   the private key, protected by the call's password, of the keypair whose
   public key is in publicKey and encrypted encryptedData. *)
BundleConsistency ==
    /\ \A i \in 1..Len(issued) :
          LET b == issued[i]
              privateKey == TextDecode(b.timelockedPrivateKey.body)
          IN  /\ roundAt(b.unlockTime, CHAIN_INFO) = Ok(b.roundNumber)
              /\ b.timelockedPrivateKey.round = b.roundNumber
              /\ privateKey.key = b.publicKey.key
              /\ b.encryptedData.key = b.publicKey.key
    /\ \A p \in Procs :
          LET r == result[p]
          IN  (r.op = "encrypt" /\ r.ok)
              => /\ PasswordOf(issued[r.index]) = r.password
                 /\ PlaintextOf(issued[r.index]) = r.data

\* Reached: two bundles of different keypairs and rounds, the later one
\* just returned for a round that is not the first.
BundleConsistencyWitness ==
    \E p \in Procs :
        LET r == result[p]
        IN  /\ r.op = "encrypt" /\ r.ok
            /\ r.index = 2
            /\ issued[2].roundNumber > issued[1].roundNumber
            /\ issued[2].unlockTime > issuedAt[2]
            /\ issued[2].publicKey.key # issued[1].publicKey.key

----------------------------------------------------------------------------
(* C25 -- the unlock instant is resolved after key generation and payload
   encryption, so the unlockTime of a bundle is not earlier than the moment
   hybridEncrypt was called plus the requested duration, and the bundle does
   not open sooner than the requested duration after that moment: a
   hybridDecrypt call that returns its plaintext was made no earlier. *)
NotSoonerThanRequested ==
    \A p, q \in Procs :
        LET r == result[p]
            s == result[q]
        IN  (r.op = "encrypt" /\ r.ok)
            => /\ issued[r.index].unlockTime >= r.calledAt + r.durationMs
               /\ (s.op = "decrypt" /\ s.src = r.index /\ Returned(s))
                  => s.calledAt >= r.calledAt + r.durationMs

----------------------------------------------------------------------------
(* Invalid unlock dates *)

\* A finished hybridEncrypt call whose config resolves to no number: a
\* durationMs that is NaN, or a preset the table does not have.
UnresolvedDuration(r) ==
    /\ r.op = "encrypt"
    /\ IF r.custom
       THEN r.durationMs = NaN
       ELSE r.duration \notin {"min", "month", "year"}

(* C26 -- invalid unlock date: encryptWithTimelock given a Date whose time
   is NaN fails with TypeError before the round is computed, the client
   constructed or the oracle called; so a hybridEncrypt call with an
   unrecognized preset or a NaN durationMs fails with TypeError, returns no
   bundle, and leaves the client and the oracle untouched. *)
InvalidDateRejected ==
    /\ [](/\ \A net \in BOOLEAN :
                encryptWithTimelock(TextEncode("k"), NaN, net)
                = [ret |-> Throw(TypeError), uses |-> 0, steps |-> <<>>]
          /\ \A p \in Procs :
                UnresolvedDuration(result[p])
                => /\ ~result[p].ok
                   /\ result[p].error = TypeError
                   /\ result[p].index = 0
                   /\ result[p].steps = <<>>)
    /\ [][\A p \in Procs :
            (UnresolvedDuration(result'[p]) /\ frame[p].pc = "enc_lock")
            => /\ cachedClient' = cachedClient
               /\ clientsBuilt' = clientsBuilt
               /\ issued' = issued]_vars

\* Reached: a call with a preset the table does not have failed with
\* TypeError while the oracle was reachable, no client having been built.
InvalidDateRejectedWitness ==
    \E p \in Procs :
        /\ UnresolvedDuration(result[p])
        /\ result[p].duration = "decade"
        /\ result[p].error = TypeError
        /\ result[p].gateReachable
        /\ cachedClient = Null
        /\ Len(issued) = 0

====
